---- MODULE Spec2Model ----
(***************************************************************************)
(* Model of the ReceiptsManagement admin page                              *)
(* (src/src/pages/admin/ReceiptsManagement.tsx): the mount-time loader,    *)
(* the search filter, the paginator and the detail-modal handlers.         *)
(*                                                                         *)
(* Strings are sequences of one-character strings, so that toLowerCase and *)
(* String.prototype.includes are computed rather than assumed.  A value    *)
(* that may be null is a sequence of length 0 (null) or 1 (the value).     *)
(***************************************************************************)
EXTENDS Integers, Sequences, FiniteSets, TLC

VARIABLES
    receipts,         \* useState<Receipt[]>([])
    isLoading,        \* useState(false)
    error,            \* useState<string | null>(null)
    searchTerm,       \* useState('')
    selectedReceipt,  \* useState<Receipt | null>(null)
    isModalOpen,      \* useState(false)
    currentPage,      \* useState(1)
    mounted,          \* whether the component instance is in the tree
    request,          \* the instance's getAllReceipts call
    response,         \* how that call settled, null until it has
    fetchCalls,       \* getAllReceipts calls the instance has issued
    toasts            \* toast.error calls the instance has made

vars == <<receipts, isLoading, error, searchTerm, selectedReceipt, isModalOpen,
          currentPage, mounted, request, response, fetchCalls, toasts>>

----------------------------------------------------------------------------
(* Bounds of the model *)

\* longest collection the receipt service returns
MaxReceipts == 21

----------------------------------------------------------------------------
(* Program constants *)

\* const [itemsPerPage] = useState(10): never set again
itemsPerPage == 10

Null == <<>>

Some(v) == <<v>>

FailedToLoad == "Failed to load receipts"

MsgNoMatch == "No receipts found matching your search."

MsgNoReceipts == "No receipts found."

----------------------------------------------------------------------------
(* Strings *)

UpperChars == <<"A","B","C","D","E","F","G","H","I","J","K","L","M",
                "N","O","P","Q","R","S","T","U","V","W","X","Y","Z">>

LowerChars == <<"a","b","c","d","e","f","g","h","i","j","k","l","m",
                "n","o","p","q","r","s","t","u","v","w","x","y","z">>

\* the characters that occur in the model's strings
Chars ==
    { UpperChars[i] : i \in 1..26 } \cup { LowerChars[i] : i \in 1..26 }
        \cup { "0","1","2","3","4","5","6","7","8","9","@" }

\* one character of String.prototype.toLowerCase
toLowerChar ==
    [c \in Chars |->
        IF \E i \in 1..26 : UpperChars[i] = c
        THEN LowerChars[CHOOSE i \in 1..26 : UpperChars[i] = c]
        ELSE c]

\* String.prototype.toLowerCase
toLowerCase(s) == [i \in 1..Len(s) |-> toLowerChar[s[i]]]

\* whether t occurs in s at the (1-based) position i
occursAt(s, t, i) == \A j \in 1..Len(t) : s[i + j - 1] = t[j]

RECURSIVE indexOfFrom(_, _, _)
\* the 0-based position of the first occurrence of t in s at or after the
\* 1-based position i, or -1
indexOfFrom(s, t, i) ==
    IF i + Len(t) - 1 > Len(s) THEN -1
    ELSE IF occursAt(s, t, i) THEN i - 1
    ELSE indexOfFrom(s, t, i + 1)

\* includes, were an empty needle taken to match nothing
includes_nonEmptyTerm(s, t) == Len(t) > 0 /\ indexOfFrom(s, t, 1) # -1

\* String.prototype.includes
includes(s, t) == indexOfFrom(s, t, 1) # -1

----------------------------------------------------------------------------
(* Data the receipt service can return *)

Digit == <<"0","1","2","3","4","5","6","7","8","9">>

\* two decimal digits of n
Digits(n) == <<Digit[((n \div 10) % 10) + 1], Digit[(n % 10) + 1]>>

Names == << <<"A","l">>, <<"B","o">> >>

Emails == << <<"u","@","x">>, <<"w","@","Y">> >>

Services == << <<"S","p","a">>, <<"G","y","m">>, <<"C","u","t">> >>

Personnel == << <<"K","i","m">>, <<"L","e","o">>, <<"K","i","m">>,
                <<"K","i","m">>, <<"K","i","m">> >>

\* the i-th receipt of the backend's collection
ReceiptAt(i) ==
    [ _id |-> <<"R">> \o Digits(i),
      booking |->
        [ _id     |-> <<"k">> \o Digits(i + 30),
          user    |-> [ name  |-> Names[(i % 2) + 1],
                        email |-> Emails[(i % 2) + 1] ],
          service |-> [ name |-> Services[(i % 3) + 1] ],
          status  |-> IF i % 7 = 0 THEN <<"V","o","i","d">>
                                   ELSE <<"p","a","i","d">> ],
      servicePersonnelName |-> Personnel[(i % 5) + 1] ]

\* what receiptService.getAllReceipts() can resolve to
Responses == { [i \in 1..n |-> ReceiptAt(i)] : n \in 0..MaxReceipts }

\* err.message of what receiptService.getAllReceipts() can reject with;
\* Null is an error without a message
ErrorMessages == { Null, Some(""), Some("Network Error") }

\* what the user can type into the search box
SearchTerms ==
    { <<>>,
      <<"r">>,            \* receipt id, every receipt
      <<"r","0">>,        \* receipt id R01..R09
      <<"K","3">>,        \* booking id k31..k39
      <<"B","O">>,        \* customer name
      <<"@","y">>,        \* customer email
      <<"s","P">>,        \* service name
      <<"E","o">>,        \* service-personnel name
      <<"v","O","I">>,    \* booking status
      <<"z">> }           \* nothing

----------------------------------------------------------------------------
(* Derived values of one render *)

\* the predicate, were the booking status left out of the searched fields
matchesSearch_withoutStatus(receipt, term) ==
    LET searchLower == toLowerCase(term) IN
    \/ includes(toLowerCase(receipt._id), searchLower)
    \/ includes(toLowerCase(receipt.booking._id), searchLower)
    \/ includes(toLowerCase(receipt.booking.user.name), searchLower)
    \/ includes(toLowerCase(receipt.booking.user.email), searchLower)
    \/ includes(toLowerCase(receipt.booking.service.name), searchLower)
    \/ includes(toLowerCase(receipt.servicePersonnelName), searchLower)

\* the predicate of receipts.filter(...)
matchesSearch(receipt, term) ==
    LET searchLower == toLowerCase(term) IN
    \/ includes(toLowerCase(receipt._id), searchLower)
    \/ includes(toLowerCase(receipt.booking._id), searchLower)
    \/ includes(toLowerCase(receipt.booking.user.name), searchLower)
    \/ includes(toLowerCase(receipt.booking.user.email), searchLower)
    \/ includes(toLowerCase(receipt.booking.service.name), searchLower)
    \/ includes(toLowerCase(receipt.servicePersonnelName), searchLower)
    \/ includes(toLowerCase(receipt.booking.status), searchLower)

\* Array.prototype.filter
filter(C, term) == SelectSeq(C, LAMBDA receipt : matchesSearch(receipt, term))

filteredReceipts == filter(receipts, searchTerm)

\* Array.prototype.slice(start, end)
slice(a, start, end) ==
    LET len == Len(a)
        k   == IF start < 0 THEN (IF len + start < 0 THEN 0 ELSE len + start)
               ELSE (IF start > len THEN len ELSE start)
        fin == IF end < 0 THEN (IF len + end < 0 THEN 0 ELSE len + end)
               ELSE (IF end > len THEN len ELSE end)
    IN  IF k >= fin THEN <<>> ELSE SubSeq(a, k + 1, fin)

indexOfLastReceiptAt(page) == page * itemsPerPage

indexOfFirstReceiptAt(page) == indexOfLastReceiptAt(page) - itemsPerPage

\* the slice shown when the current page is `page`
pageSlice(C, page) ==
    slice(C, indexOfFirstReceiptAt(page), indexOfLastReceiptAt(page))

indexOfLastReceipt == indexOfLastReceiptAt(currentPage)

indexOfFirstReceipt == indexOfFirstReceiptAt(currentPage)

currentReceipts == pageSlice(filteredReceipts, currentPage)

\* the page count, were the quotient rounded down
pageCount_floor(n) == n \div itemsPerPage

\* Math.ceil(n / itemsPerPage)
pageCount(n) ==
    IF n % itemsPerPage = 0 THEN n \div itemsPerPage
                            ELSE (n \div itemsPerPage) + 1

\* the table is rendered instead of the spinner
tableShown == mounted /\ ~isLoading

\* the <tr> of the empty state
emptyRowShown == tableShown /\ ~(Len(currentReceipts) > 0)

emptyRowMessage == IF searchTerm # <<>> THEN MsgNoMatch ELSE MsgNoReceipts

\* the pagination footer
paginationShown == tableShown /\ Len(filteredReceipts) > 0

\* the numbered page buttons
pageButtons == 1..pageCount(Len(filteredReceipts))

showingFrom == indexOfFirstReceipt + 1

showingTo ==
    IF indexOfLastReceipt > Len(filteredReceipts) THEN Len(filteredReceipts)
                                                  ELSE indexOfLastReceipt

showingOf == Len(filteredReceipts)

----------------------------------------------------------------------------
(* Initial state: the useState initial values of the first instance *)

Init ==
    /\ receipts = <<>>
    /\ isLoading = FALSE
    /\ error = Null
    /\ searchTerm = <<>>
    /\ selectedReceipt = Null
    /\ isModalOpen = FALSE
    /\ currentPage = 1
    /\ mounted = TRUE
    /\ request = "none"
    /\ response = Null
    /\ fetchCalls = 0
    /\ toasts = 0

----------------------------------------------------------------------------
(* Actions *)

\* useEffect(() => { fetchReceipts(); }, []): fetchReceipts up to its await
FetchStart ==
    /\ mounted
    /\ request = "none"
    /\ isLoading' = TRUE
    /\ error' = Null
    /\ request' = "pending"
    /\ fetchCalls' = fetchCalls + 1
    /\ UNCHANGED <<receipts, searchTerm, selectedReceipt, isModalOpen,
                   currentPage, mounted, response, toasts>>

\* the resolution, were the setters guarded by a mounted flag
settleSuccess_ignoredWhenUnmounted(data) ==
    /\ request = "pending"
    /\ receipts' = IF mounted THEN data ELSE receipts
    /\ isLoading' = IF mounted THEN FALSE ELSE isLoading
    /\ request' = "settled"
    /\ response' = Some([ok |-> TRUE, value |-> data, stale |-> ~mounted])
    /\ UNCHANGED <<error, searchTerm, selectedReceipt, isModalOpen,
                   currentPage, mounted, fetchCalls, toasts>>

\* the await resolves: setReceipts(data), then finally setIsLoading(false)
settleSuccess(data) ==
    /\ request = "pending"
    /\ receipts' = data
    /\ isLoading' = FALSE
    /\ request' = "settled"
    /\ response' = Some([ok |-> TRUE, value |-> data, stale |-> ~mounted])
    /\ UNCHANGED <<error, searchTerm, selectedReceipt, isModalOpen,
                   currentPage, mounted, fetchCalls, toasts>>

FetchSuccess == \E data \in Responses : settleSuccess(data)

\* the rejection, were setIsLoading(false) at the end of the try block
settleFailure_loadingStuck(message) ==
    /\ request = "pending"
    /\ error' = Some(IF message = Null \/ message = Some("")
                     THEN FailedToLoad ELSE message[1])
    /\ toasts' = toasts + 1
    /\ request' = "settled"
    /\ response' = Some([ok |-> FALSE, value |-> message, stale |-> ~mounted])
    /\ UNCHANGED <<receipts, isLoading, searchTerm, selectedReceipt,
                   isModalOpen, currentPage, mounted, fetchCalls>>

\* the rejection, were it setError(err.message) without the fallback
settleFailure_rawMessage(message) ==
    /\ request = "pending"
    /\ error' = IF message = Null THEN Null ELSE Some(message[1])
    /\ toasts' = toasts + 1
    /\ isLoading' = FALSE
    /\ request' = "settled"
    /\ response' = Some([ok |-> FALSE, value |-> message, stale |-> ~mounted])
    /\ UNCHANGED <<receipts, searchTerm, selectedReceipt, isModalOpen,
                   currentPage, mounted, fetchCalls>>

\* the await rejects: the catch block, then finally setIsLoading(false)
settleFailure(message) ==
    /\ request = "pending"
    /\ error' = Some(IF message = Null \/ message = Some("")
                     THEN FailedToLoad ELSE message[1])
    /\ toasts' = toasts + 1
    /\ isLoading' = FALSE
    /\ request' = "settled"
    /\ response' = Some([ok |-> FALSE, value |-> message, stale |-> ~mounted])
    /\ UNCHANGED <<receipts, searchTerm, selectedReceipt, isModalOpen,
                   currentPage, mounted, fetchCalls>>

FetchFailure == \E message \in ErrorMessages : settleFailure(message)

\* the handler, were it to go back to the first page
changeSearch_resetsPage(value) ==
    /\ mounted
    /\ request # "none"
    /\ searchTerm' = value
    /\ currentPage' = 1
    /\ UNCHANGED <<receipts, isLoading, error, selectedReceipt, isModalOpen,
                   mounted, request, response, fetchCalls, toasts>>

\* onChange={(e) => setSearchTerm(e.target.value)}; an event is handled
\* only after the effect of the mount has run
changeSearch(value) ==
    /\ mounted
    /\ request # "none"
    /\ searchTerm' = value
    /\ UNCHANGED <<receipts, isLoading, error, selectedReceipt, isModalOpen,
                   currentPage, mounted, request, response, fetchCalls,
                   toasts>>

ChangeSearch == \E value \in SearchTerms : changeSearch(value)

\* const paginate = (pageNumber) => setCurrentPage(pageNumber)
paginate(pageNumber) ==
    /\ currentPage' = pageNumber
    /\ UNCHANGED <<receipts, isLoading, error, searchTerm, selectedReceipt,
                   isModalOpen, mounted, request, response, fetchCalls,
                   toasts>>

previousTarget == IF currentPage > 1 THEN currentPage - 1 ELSE 1

\* the Previous button: disabled={currentPage === 1}
ClickPrevious ==
    /\ paginationShown
    /\ currentPage # 1
    /\ paginate(previousTarget)

nextTarget ==
    IF currentPage < pageCount(Len(filteredReceipts)) THEN currentPage + 1
                                                      ELSE currentPage

\* the Next button: disabled={currentPage === Math.ceil(length / itemsPerPage)}
ClickNext ==
    /\ paginationShown
    /\ currentPage # pageCount(Len(filteredReceipts))
    /\ paginate(nextTarget)

\* a numbered page button
ClickPage ==
    /\ paginationShown
    /\ \E index \in 0..(pageCount(Len(filteredReceipts)) - 1) :
          paginate(index + 1)

\* handleViewReceipt, from the View button of a row of the table
handleViewReceipt(receipt) ==
    /\ selectedReceipt' = Some(receipt)
    /\ isModalOpen' = TRUE
    /\ UNCHANGED <<receipts, isLoading, error, searchTerm, currentPage,
                   mounted, request, response, fetchCalls, toasts>>

ClickView ==
    /\ tableShown
    /\ \E row \in 1..Len(currentReceipts) :
          handleViewReceipt(currentReceipts[row])

\* onClose={() => setIsModalOpen(false)}
CloseModal ==
    /\ mounted
    /\ isModalOpen
    /\ isModalOpen' = FALSE
    /\ UNCHANGED <<receipts, isLoading, error, searchTerm, selectedReceipt,
                   currentPage, mounted, request, response, fetchCalls,
                   toasts>>

\* The page is left, after the effect of the mount has run.  The effect
\* registers no cleanup, so a pending request is neither cancelled nor
\* detached from the state setters.
Unmount ==
    /\ mounted
    /\ request # "none"
    /\ mounted' = FALSE
    /\ UNCHANGED <<receipts, isLoading, error, searchTerm, selectedReceipt,
                   isModalOpen, currentPage, request, response, fetchCalls, toasts>>

\* The page is entered again: a new instance with the useState initial
\* values.  The state, the request and the counters are from here on those
\* of the new instance; a request the old instance left pending can reach
\* only the old instance's setters.
Remount ==
    /\ ~mounted
    /\ receipts' = <<>>
    /\ isLoading' = FALSE
    /\ error' = Null
    /\ searchTerm' = <<>>
    /\ selectedReceipt' = Null
    /\ isModalOpen' = FALSE
    /\ currentPage' = 1
    /\ mounted' = TRUE
    /\ request' = "none"
    /\ response' = Null
    /\ fetchCalls' = 0
    /\ toasts' = 0

Next ==
    \/ FetchStart
    \/ FetchSuccess
    \/ FetchFailure
    \/ ChangeSearch
    \/ ClickPrevious
    \/ ClickNext
    \/ ClickPage
    \/ ClickView
    \/ CloseModal
    \/ Unmount
    \/ Remount

Spec == Init /\ [][Next]_vars

----------------------------------------------------------------------------
(* Properties *)

\* a character with its case folded to the capital
foldCase ==
    [c \in Chars |->
        IF \E i \in 1..26 : LowerChars[i] = c
        THEN UpperChars[CHOOSE i \in 1..26 : LowerChars[i] = c]
        ELSE c]

\* t occurs somewhere in s, case ignored
occursIgnoringCase(t, s) ==
    \E i \in 0..(Len(s) - Len(t)) :
        \A j \in 1..Len(t) : foldCase[s[i + j]] = foldCase[t[j]]

\* the seven fields the search looks at
searchedFields(r) ==
    { r._id, r.booking._id, r.booking.user.name, r.booking.user.email,
      r.booking.service.name, r.servicePersonnelName, r.booking.status }

\* the positions of C whose receipt has a field in which t occurs
matchingIndices(C, t) ==
    { i \in 1..Len(C) : \E f \in searchedFields(C[i]) : occursIgnoringCase(t, f) }

\* C1: the filtered list is exactly the receipts of the collection, in their
\* original order and each once, in which the search term occurs, case
\* ignored, in the receipt id, booking id, customer name, customer email,
\* service name, service-personnel name or booking status.
C1_FilterIsMatchingSubsequence ==
    LET idx == matchingIndices(receipts, searchTerm)
        F   == filteredReceipts
    IN  /\ Len(F) = Cardinality(idx)
        /\ \A i \in idx :
              F[Cardinality({ j \in idx : j <= i })] = receipts[i]

\* a term with capitals keeps some, not all, of more than a page of receipts
C1_Witness ==
    /\ Len(receipts) > itemsPerPage
    /\ searchTerm # toLowerCase(searchTerm)
    /\ Len(filteredReceipts) > 0
    /\ Len(filteredReceipts) < Len(receipts)

RECURSIVE concatPages(_, _)
\* the slices of pages 1..n of C, one after the other
concatPages(C, n) ==
    IF n = 0 THEN <<>> ELSE concatPages(C, n - 1) \o pageSlice(C, n)

\* C2: with N filtered receipts there are ceil(N/10) page buttons, page p
\* shows the elements at indices [(p-1)*10, p*10), no page is empty or longer
\* than 10, only the last may be shorter, and the pages in order make up the
\* filtered collection.
C2_PagesPartitionFiltered ==
    LET F == filteredReceipts
        N == Len(F)
        B == Cardinality(pageButtons)
    IN  /\ B * itemsPerPage >= N
        /\ (B - 1) * itemsPerPage < N
        /\ \A p \in 1..B :
              LET first == (p - 1) * itemsPerPage
                  last  == IF p * itemsPerPage < N THEN p * itemsPerPage ELSE N
                  shown == pageSlice(F, p)
              IN  /\ Len(shown) = last - first
                  /\ \A k \in 1..Len(shown) : shown[k] = F[first + k]
                  /\ Len(shown) >= 1
                  /\ Len(shown) <= itemsPerPage
                  /\ p < B => Len(shown) = itemsPerPage
        /\ concatPages(F, B) = F

\* three pages, the last of them short
C2_Witness ==
    /\ paginationShown
    /\ Len(filteredReceipts) = 2 * itemsPerPage + 1
    /\ currentPage = 3

\* C3: whenever the page controls are shown, Previous leads to
\* max(1, currentPage - 1), Next leads to a page no greater than the last
\* page, and Next on the last page leads to the same page.
C3_NavigationClamped ==
    paginationShown =>
        LET last == pageCount(Len(filteredReceipts)) IN
        /\ previousTarget = (IF currentPage - 1 > 1 THEN currentPage - 1 ELSE 1)
        /\ nextTarget <= last
        /\ currentPage = last => nextTarget = currentPage

\* C4: a step of the mounted page that changes the search term changes
\* nothing else; the current page in particular is kept.
C4_SearchChangesOnlyTerm ==
    [][(mounted /\ searchTerm' # searchTerm) =>
          UNCHANGED <<receipts, isLoading, error, selectedReceipt, isModalOpen,
                      currentPage, mounted, request, response, fetchCalls,
                      toasts>>]_vars

\* receipts match, yet the page is past the last one and the table is empty
C4_Witness ==
    /\ tableShown
    /\ searchTerm # <<>>
    /\ Len(filteredReceipts) > 0
    /\ currentPage > pageCount(Len(filteredReceipts))
    /\ currentReceipts = <<>>
    /\ emptyRowShown

\* C5: the loading flag is set while the request is pending and clear once
\* it has settled, resolved or rejected; after a resolution the held
\* collection is the returned sequence and the error is null.
C5_LoadingTracksRequest ==
    /\ request = "pending" => isLoading
    /\ request = "settled" => ~isLoading
    /\ (request = "settled" /\ response[1].ok) =>
          (receipts = response[1].value /\ error = Null)

\* a resolved request whose receipts are held
C5_Witness ==
    /\ request = "settled"
    /\ response[1].ok
    /\ receipts # <<>>
    /\ ~isLoading

\* the message a rejection with err.message = message is to leave
expectedError(message) ==
    IF message = Null \/ message = Some("") THEN FailedToLoad ELSE message[1]

\* C6: a rejection leaves a non-null error (the error's message, or
\* 'Failed to load receipts' without one), emits one notification and keeps
\* the held collection; an instance issues one fetch only, and its error
\* stays as it is until the page is mounted again.
C6_FailureRecorded ==
    /\ [](/\ fetchCalls <= 1
          /\ (request = "settled" /\ ~response[1].ok) =>
                /\ error # Null
                /\ error = Some(expectedError(response[1].value))
                /\ toasts = 1
                /\ fetchCalls = 1)
    /\ [][(request = "pending" /\ request' = "settled" /\ ~response'[1].ok) =>
             (receipts' = receipts /\ toasts' = toasts + 1)]_vars
    /\ [][(error # Null /\ ~(~mounted /\ mounted')) =>
             (error' = error /\ fetchCalls' = fetchCalls)]_vars

\* a rejection without a message, and the page used afterwards
C6_Witness ==
    /\ request = "settled"
    /\ ~response[1].ok
    /\ response[1].value = Null
    /\ error = Some(FailedToLoad)
    /\ searchTerm # <<>>

\* C7: a request that settles after the page was left still clears the
\* loading flag and stores its receipts or its error.
C7_StaleSettlementApplied ==
    (request = "settled" /\ response[1].stale) =>
        /\ ~isLoading
        /\ response[1].ok => receipts = response[1].value
        /\ ~response[1].ok => error = Some(expectedError(response[1].value))

\* mount, fetch start, unmount, then a resolution with receipts
C7_Witness ==
    /\ ~mounted
    /\ request = "settled"
    /\ response[1].stale
    /\ response[1].ok
    /\ receipts # <<>>

\* C8: the empty search term keeps every receipt, in order.
C8_EmptyTermIsIdentity ==
    /\ filter(receipts, <<>>) = receipts
    /\ searchTerm = <<>> => filteredReceipts = receipts

\* more than a page of receipts under the empty term
C8_Witness ==
    /\ searchTerm = <<>>
    /\ Len(receipts) > itemsPerPage
    /\ filteredReceipts = receipts

\* C9: with no filtered receipt and the table shown there are no page
\* buttons and no pagination footer, and the empty-state row reads
\* 'No receipts found matching your search.' under a search term and
\* 'No receipts found.' without one; the empty-state row is shown only when
\* there is no filtered receipt.
C9_EmptyStateRow ==
    /\ (tableShown /\ Len(filteredReceipts) = 0) =>
          /\ pageButtons = {}
          /\ ~paginationShown
          /\ emptyRowShown
          /\ emptyRowMessage =
                (IF searchTerm = <<>> THEN MsgNoReceipts ELSE MsgNoMatch)
    /\ emptyRowShown => Len(filteredReceipts) = 0

\* C10: whenever the pagination footer is shown, 'Showing a to b of N'
\* has 1 <= a <= b <= N, a = (currentPage-1)*10 + 1, b = min(currentPage*10, N)
\* and b - a + 1 rows in the table.
C10_ShowingRange ==
    paginationShown =>
        LET N == Len(filteredReceipts) IN
        /\ showingOf = N
        /\ showingFrom = (currentPage - 1) * itemsPerPage + 1
        /\ showingTo = (IF currentPage * itemsPerPage < N
                        THEN currentPage * itemsPerPage ELSE N)
        /\ 1 <= showingFrom
        /\ showingFrom <= showingTo
        /\ showingTo <= N
        /\ showingTo - showingFrom + 1 = Len(currentReceipts)

====
